---- MODULE Spec2Model ----
(***************************************************************************)
(* idea-inbox CLI: the pending-capture state machine of cli.py.            *)
(*                                                                         *)
(* Every CLI invocation is one action: it loads the state file, lazily     *)
(* expires it, runs one command and (on most paths) saves the file again.  *)
(* Time is counted in clock ticks, Res ticks to the second, so that the    *)
(* second-precision ISO strings the program stores differ from the         *)
(* instants the clock gives.  Strings are sequences of one-character       *)
(* strings; Python's None is the empty tuple and a present value x is the  *)
(* one-element tuple <<x>>.                                                *)
(*                                                                         *)
(* The invocations run one at a time and the clock never runs backwards.   *)
(* cap_until and cap_restarted are history variables: no command reads     *)
(* them; they record what the starts, cancels and saved commits did.       *)
(***************************************************************************)
EXTENDS Integers, Sequences, FiniteSets, TLC

\* ---------------------------------------------------------------- bounds
\* clock ticks in one second (sub-second resolution of datetime.now())
Res == 2
\* the clock stops advancing at this tick
MaxClock == 2
\* largest --timeout value drawn (seconds); the smallest drawn is 0
MaxTimeout == 1
\* how many notes the commands may write into the ideas directory
MaxNotes == 1
\* works in one OpenAlex reply
MaxWorks == 3
\* characters of a title after the run of letters
SlugTailLen == 3

\* ------------------------------------------------------------- constants
\* slugify(s, max_len=60)
SlugMaxLen == 60
\* TITLE line: title_basis.strip()[:120]
TitleMaxLen == 120

\* ------------------------------------------------------------ input sets
None == <<>>
Some(x) == <<x>>

\* start --user-id values: required, but may be the empty string
UserIds == {"", "u1", "u2"}
\* commit --user-id values: the empty id, an owner's id, and (against a
\* capture of u2 or of the empty id) another one
CommitUserIds == {"", "u1"}
\* --timeout values: argparse type=int accepts every integer, zero and the
\* negative ones included; a negative timeout acts like 0 (the slot is
\* expired as soon as it is saved)
Timeouts == 0..MaxTimeout
\* --text values: " A\nb" and " " (blank after trimming)
Texts == { <<" ", "A", "\n", "b", " ">>, <<" ">> }
\* enrich-start --file and --idea-text values
EnrichFiles == {"f1", "f2"}
EnrichTexts == { <<"a">> }
EnrichUserIds == {"u1"}
EnrichTimeouts == {1}
\* between two now_local() calls of one invocation the clock stands still or
\* moves on by a tick
Lags == {0, 1}

VARIABLES
    clock,       \* the wall clock, in ticks (what datetime.now() returns)
    state_file,  \* the state JSON file: None while it does not exist
    notes,       \* the ideas directory: a function from path to content
    out,         \* stdout of the last invocation: a sequence of lines
    rc,          \* exit code of the last invocation
    cap_until,   \* history: the expiry instant computed by the last start,
                 \* None before any start and after a cancel or a saved commit
    cap_restarted, \* history: the capture that is pending now replaced an
                 \* earlier start's capture that was still pending (neither
                 \* cancelled, committed nor expired)
    arg          \* the arguments and the environment's replies of an
                 \* invocation that does not touch the state file (None
                 \* while the state-machine commands run)

vars == <<clock, state_file, notes, out, rc, cap_until, cap_restarted, arg>>

\* ------------------------------------------------------- string helpers
Whitespace == {" ", "\n", "\t"}
Line(k, v) == [k |-> k, v |-> v]

RECURSIVE lstrip(_, _)
lstrip(s, chars) ==
    IF s # <<>> /\ Head(s) \in chars THEN lstrip(Tail(s), chars) ELSE s

RECURSIVE rstrip(_, _)
rstrip(s, chars) ==
    IF s # <<>> /\ s[Len(s)] \in chars
    THEN rstrip(SubSeq(s, 1, Len(s) - 1), chars)
    ELSE s

strip(s, chars) == rstrip(lstrip(s, chars), chars)

\* s[:n]
Take(s, n) == SubSeq(s, 1, IF Len(s) < n THEN Len(s) ELSE n)

\* str.lower() on the letters the inputs use
lower_char(c) ==
    CASE c = "A" -> "a"
      [] c = "B" -> "b"
      [] OTHER -> c

lower(s) == [i \in 1..Len(s) |-> lower_char(s[i])]

\* characters of the class [a-z0-9\s_-] among those the inputs use
SlugKeep == {"a", "b", "c", "i", "d", "e", "0", "1", "_", "-"} \cup Whitespace

\* re.sub(r"[^a-z0-9\s_-]+", "", s)
RECURSIVE drop_others(_)
drop_others(s) ==
    IF s = <<>> THEN <<>>
    ELSE IF Head(s) \in SlugKeep THEN <<Head(s)>> \o drop_others(Tail(s))
    ELSE drop_others(Tail(s))

\* re.sub(run+, "-", s) for a character class: every maximal run of
\* characters of the class becomes one hyphen
RECURSIVE collapse(_, _)
collapse(s, class) ==
    IF s = <<>> THEN <<>>
    ELSE IF Head(s) \in class
         THEN <<"-">> \o collapse(lstrip(s, class), class)
         ELSE <<Head(s)>> \o collapse(Tail(s), class)

\* variant: the hyphen a cut leaves at the end is not stripped
slugify_keeps_cut_hyphen(s0, max_len) ==
    LET s1 == lower(strip(s0, Whitespace))
        s2 == drop_others(s1)
        s3 == collapse(s2, Whitespace \cup {"_"})
        s4 == strip(collapse(s3, {"-"}), {"-"})
    IN  IF s4 = <<>> THEN <<"i", "d", "e", "a">>
        ELSE Take(s4, max_len)

slugify(s0, max_len) ==
    LET s1 == lower(strip(s0, Whitespace))
        s2 == drop_others(s1)
        s3 == collapse(s2, Whitespace \cup {"_"})
        s4 == strip(collapse(s3, {"-"}), {"-"})
    IN  IF s4 = <<>> THEN <<"i", "d", "e", "a">>
        ELSE strip(Take(s4, max_len), {"-"})

\* str.splitlines()[0] of a string that is not empty
first_line(s) ==
    IF \E i \in 1..Len(s) : s[i] = "\n"
    THEN SubSeq(s, 1, (CHOOSE i \in 1..Len(s) :
                          s[i] = "\n" /\ \A j \in 1..(i - 1) : s[j] # "\n") - 1)
    ELSE s

\* ------------------------------------------------------------ time
\* iso(dt): isoformat(timespec="seconds") drops the sub-second part
iso(dt) == dt - (dt % Res)
\* datetime.fromisoformat of a string iso() wrote
fromisoformat(str) == str
\* timedelta(seconds=n)
timedelta(seconds) == seconds * Res

\* ------------------------------------------------------------ State
State0 ==
    [pending |-> FALSE, pending_until |-> None, started_at |-> None,
     user_id |-> None, last_file |-> None, last_idea_text |-> None,
     enrich_pending |-> FALSE, enrich_until |-> None,
     enrich_user_id |-> None, enrich_file |-> None,
     enrich_idea_text |-> None]

\* What the state file can hold: nothing (None, the file does not exist),
\* <<state>> (a JSON object, as save() writes it; an absent key reads as
\* null), text that json.loads rejects, or valid JSON that is not an object
NotJson(raw) == <<"text", raw>>
JsonValue(raw) == <<"json", raw>>
\* a timestamp field holding a string that isoformat() did not write
Str(raw) == <<"str", raw>>

\* State.load raises: json.loads succeeds inside the try, and data.get,
\* outside it, fails with AttributeError on a list, string, number or null
load_raises(file) == Len(file) = 2 /\ file[1] = "json"

\* State.load: the defaults when the file does not exist or json.loads
\* raises, the fields of the object otherwise (not defined when it raises)
load(file) ==
    IF file = None \/ Len(file) = 2 THEN State0 ELSE file[1]

\* the traceback of an uncaught exception, exit status 1, nothing saved
uncaught(exc) ==
    /\ out' = <<Line("Traceback", exc)>>
    /\ rc' = 1
    /\ UNCHANGED <<arg, clock, state_file, notes, cap_until, cap_restarted>>

\* `not self.pending_until`: null and the empty string are falsy
falsy(opt) == opt = None \/ opt = Str("")
\* datetime.fromisoformat accepts the strings iso() wrote
parses(opt) == Len(opt) = 1

\* State.save: the whole record overwrites the file
save(state) == Some(state)

\* variant: the slot expires only after its expiry instant (> for >=)
is_expired_late(state, at) ==
    IF ~state.pending \/ falsy(state.pending_until) THEN FALSE
    ELSE IF ~parses(state.pending_until) THEN TRUE
    ELSE at > fromisoformat(state.pending_until[1])

is_expired(state, at) ==
    IF ~state.pending \/ falsy(state.pending_until) THEN FALSE
    ELSE IF ~parses(state.pending_until) THEN TRUE
    ELSE at >= fromisoformat(state.pending_until[1])

enrich_is_expired(state, at) ==
    IF ~state.enrich_pending \/ falsy(state.enrich_until) THEN FALSE
    ELSE IF ~parses(state.enrich_until) THEN TRUE
    ELSE at >= fromisoformat(state.enrich_until[1])

\* variant: lazy expiry forgets to clear the owner
expire_capture_keeps_owner(state) ==
    [state EXCEPT !.pending = FALSE, !.pending_until = None,
                  !.started_at = None]

expire_capture(state) ==
    [state EXCEPT !.pending = FALSE, !.pending_until = None,
                  !.started_at = None, !.user_id = None]

expire_enrich(state) ==
    [state EXCEPT !.enrich_pending = FALSE, !.enrich_until = None,
                  !.enrich_user_id = None, !.enrich_file = None,
                  !.enrich_idea_text = None]

\* variant: an expired capture takes the enrichment slot down with it
ensure_not_expired_resets_both(state, at) ==
    LET s1 == IF state.pending /\ is_expired(state, at)
              THEN expire_enrich(expire_capture(state)) ELSE state
    IN  IF s1.enrich_pending /\ enrich_is_expired(s1, at)
        THEN expire_enrich(s1) ELSE s1

ensure_not_expired(state, at) ==
    LET s1 == IF state.pending /\ is_expired(state, at)
              THEN expire_capture(state) ELSE state
    IN  IF s1.enrich_pending /\ enrich_is_expired(s1, at)
        THEN expire_enrich(s1) ELSE s1

\* ------------------------------------------------------------ commands
Init ==
    /\ clock = 0
    /\ state_file = None
    /\ notes = [p \in {} |-> None]
    /\ out = <<>>
    /\ rc = 0
    /\ cap_until = None
    /\ cap_restarted = FALSE
    /\ arg = None

\* the wall clock advances between invocations
Tick ==
    /\ clock < MaxClock
    /\ clock' = clock + 1
    /\ cap_restarted' = (cap_restarted /\ clock' < cap_until[1])
    /\ UNCHANGED <<arg, state_file, notes, out, rc, cap_until>>

\* variant: the timeout is added as clock ticks, not as seconds
start_state_wrong_unit(state, started, timeout, user_id) ==
    [state EXCEPT !.pending = TRUE,
                  !.started_at = Some(iso(started)),
                  !.pending_until = Some(iso(started + timeout)),
                  !.user_id = Some(user_id)]

\* variant: a start over a pending capture keeps the earlier owner
start_state_keeps_owner(state, started, timeout, user_id) ==
    [state EXCEPT !.pending = TRUE,
                  !.started_at = Some(iso(started)),
                  !.pending_until = Some(iso(started + timedelta(timeout))),
                  !.user_id = IF state.pending THEN state.user_id
                              ELSE Some(user_id)]

start_state(state, started, timeout, user_id) ==
    [state EXCEPT !.pending = TRUE,
                  !.started_at = Some(iso(started)),
                  !.pending_until = Some(iso(started + timedelta(timeout))),
                  !.user_id = Some(user_id)]

cmd_start(user_id, timeout) ==
    IF load_raises(state_file) THEN uncaught("AttributeError") ELSE
    \E lag \in Lags :
        LET state == ensure_not_expired(load(state_file), clock)
            started == clock + lag
            new == start_state(state, started, timeout, user_id)
        IN  /\ started <= MaxClock
            /\ clock' = started
            /\ state_file' = save(new)
            /\ out' = <<Line("OK pending_until=", new.pending_until[1])>>
            /\ rc' = 0
            /\ cap_until' = new.pending_until
            /\ cap_restarted' = (cap_until # None /\ clock < cap_until[1])
            /\ UNCHANGED <<arg, notes>>

\* cancel_capture / cancel_enrich: the assignments of cmd_cancel
cancel_capture(state) ==
    [state EXCEPT !.pending = FALSE, !.pending_until = None,
                  !.started_at = None, !.user_id = None]

\* variant: cancel leaves the enrichment target file behind
cancel_enrich_keeps_file(state) ==
    [state EXCEPT !.enrich_pending = FALSE, !.enrich_until = None,
                  !.enrich_user_id = None, !.enrich_idea_text = None]

\* variant: the enrichment is cleared together with the capture slot
cancel_enrich_and_capture(state) ==
    [state EXCEPT !.enrich_pending = FALSE, !.enrich_until = None,
                  !.enrich_user_id = None, !.enrich_file = None,
                  !.enrich_idea_text = None,
                  !.pending = FALSE, !.pending_until = None,
                  !.started_at = None, !.user_id = None]

cancel_enrich(state) ==
    [state EXCEPT !.enrich_pending = FALSE, !.enrich_until = None,
                  !.enrich_user_id = None, !.enrich_file = None,
                  !.enrich_idea_text = None]

\* variant: only the capture slot is looked at
had_any_capture_only(state) == state.pending

had_any(state) == state.pending \/ state.enrich_pending

cmd_cancel ==
    IF load_raises(state_file) THEN uncaught("AttributeError") ELSE
    LET state == ensure_not_expired(load(state_file), clock)
    IN  /\ state_file' = save(cancel_enrich(cancel_capture(state)))
        /\ out' = IF ~had_any(state)
                  THEN <<Line("OK no_pending", None)>>
                  ELSE <<Line("OK cancelled", None)>>
        /\ rc' = 0
        /\ cap_until' = None
        /\ cap_restarted' = FALSE
        /\ UNCHANGED <<arg, clock, notes>>

\* Python truthiness of an optional string
truthy(opt) == opt # None /\ opt[1] # ""
\* Python truthiness of an optional text (a sequence of characters)
truthy_text(opt) == opt # None /\ opt[1] # <<>>

bool_str(b) == IF b THEN "true" ELSE "false"

status_lines(state) ==
    <<Line("CAPTURE_PENDING", bool_str(state.pending))>>
    \o (IF state.pending
        THEN <<Line("CAPTURE_STARTED_AT", state.started_at),
               Line("CAPTURE_PENDING_UNTIL", state.pending_until),
               Line("CAPTURE_USER_ID", state.user_id)>>
        ELSE <<>>)
    \o <<Line("ENRICH_PENDING", bool_str(state.enrich_pending))>>
    \o (IF state.enrich_pending
        THEN <<Line("ENRICH_PENDING_UNTIL", state.enrich_until),
               Line("ENRICH_USER_ID", state.enrich_user_id),
               Line("ENRICH_FILE", state.enrich_file)>>
        ELSE <<>>)
    \o (IF state.last_file # None
        THEN <<Line("LAST_FILE", state.last_file)>> ELSE <<>>)
    \o (IF truthy_text(state.last_idea_text)
        THEN <<Line("LAST_IDEA_LEN", Len(state.last_idea_text[1]))>>
        ELSE <<>>)

cmd_status ==
    IF load_raises(state_file) THEN uncaught("AttributeError") ELSE
    LET state == ensure_not_expired(load(state_file), clock)
    IN  /\ state_file' = save(state)
        /\ out' = status_lines(state)
        /\ rc' = 0
        /\ UNCHANGED <<arg, clock, notes, cap_until, cap_restarted>>

\* created.strftime('%Y-%m-%d_%H%M%S'): the local time to the second
strftime_seconds(dt) == dt - (dt % Res)
\* created.strftime('%f'): the sub-second part
strftime_f(dt) == dt % Res

build_markdown(created, user_id, text, idea_id) ==
    [id |-> idea_id, created |-> iso(created), source |-> "telegram",
     type |-> "idea", telegram_user_id |-> user_id,
     body |-> rstrip(text, Whitespace) \o <<"\n">>]

\* variant: every difference of owner ids is a mismatch, empty ids included
owner_mismatch_strict(state_user_id, user_id) ==
    state_user_id # None /\ state_user_id[1] # user_id

\* the commit is refused when both owner ids are non-empty and differ
owner_mismatch(state_user_id, user_id) ==
    truthy(state_user_id) /\ user_id # "" /\ state_user_id[1] # user_id

title_basis(text) ==
    IF strip(text, Whitespace) # <<>>
    THEN first_line(strip(text, Whitespace))
    ELSE <<"i", "d", "e", "a">>

\* ideas_dir / f"{stamp}_{slug}.md"
out_path(created, text) ==
    [stamp |-> strftime_seconds(created),
     slug |-> slugify(title_basis(text), SlugMaxLen)]

\* Path.write_text: the file is created or overwritten
write_text(dir, path, content) ==
    [p \in DOMAIN dir \cup {path} |-> IF p = path THEN content ELSE dir[p]]

\* variant: the commit clears the slot but does not record the note
commit_state_keeps_last(state, path, text) ==
    [state EXCEPT !.pending = FALSE, !.pending_until = None,
                  !.started_at = None, !.user_id = None]

\* variant: the commit records the note but leaves the capture pending
commit_state_keeps_pending(state, path, text) ==
    [state EXCEPT !.last_file = Some(path), !.last_idea_text = Some(text)]

commit_state(state, path, text) ==
    [state EXCEPT !.pending = FALSE, !.pending_until = None,
                  !.started_at = None, !.user_id = None,
                  !.last_file = Some(path), !.last_idea_text = Some(text)]

\* variant: a refused command clears the capture slot and saves
refuse_and_clear(state, line, code) ==
    /\ out' = <<Line(line, None)>>
    /\ rc' = code
    /\ state_file' = save(expire_capture(state))
    /\ UNCHANGED <<arg, clock, notes, cap_until, cap_restarted>>

\* print("ERR ...") and return: the loaded state is dropped, nothing is saved
refuse(state, line, code) ==
    /\ out' = <<Line(line, None)>>
    /\ rc' = code
    /\ UNCHANGED <<arg, clock, state_file, notes, cap_until, cap_restarted>>

cmd_commit(user_id, text) ==
    IF load_raises(state_file) THEN uncaught("AttributeError") ELSE
    LET state == ensure_not_expired(load(state_file), clock)
    IN  IF ~state.pending
        THEN refuse(state, "ERR not_pending", 2)
        ELSE IF owner_mismatch(state.user_id, user_id)
        THEN refuse(state, "ERR wrong_user", 3)
        ELSE \E lag \in Lags :
            LET created == clock + lag
                path == out_path(created, text)
                idea_id == [iso |-> iso(created), f |-> strftime_f(created)]
            IN  /\ created <= MaxClock
                /\ path \in DOMAIN notes \/ Cardinality(DOMAIN notes) < MaxNotes
                /\ clock' = created
                /\ notes' = write_text(notes, path,
                               build_markdown(created, user_id, text, idea_id))
                /\ state_file' = save(commit_state(state, path, text))
                /\ out' = <<Line("OK saved", None), Line("FILE", path),
                            Line("TITLE", Take(strip(title_basis(text), Whitespace),
                                               TitleMaxLen))>>
                /\ rc' = 0
                /\ cap_until' = None
                /\ cap_restarted' = FALSE
                /\ UNCHANGED arg

\* variant: a pending enrichment keeps its target file when restarted
enrich_start_keeps_file(state, started, timeout, user_id, file, idea_text) ==
    [state EXCEPT !.enrich_pending = TRUE,
                  !.enrich_until = Some(iso(started + timedelta(timeout))),
                  !.enrich_user_id = Some(user_id),
                  !.enrich_file = IF state.enrich_pending
                                  THEN state.enrich_file ELSE Some(file),
                  !.enrich_idea_text = Some(idea_text)]

enrich_start_state(state, started, timeout, user_id, file, idea_text) ==
    [state EXCEPT !.enrich_pending = TRUE,
                  !.enrich_until = Some(iso(started + timedelta(timeout))),
                  !.enrich_user_id = Some(user_id),
                  !.enrich_file = Some(file),
                  !.enrich_idea_text = Some(idea_text)]

cmd_enrich_start(user_id, file, idea_text, timeout) ==
    IF load_raises(state_file) THEN uncaught("AttributeError") ELSE
    \E lag \in Lags :
        LET state == ensure_not_expired(load(state_file), clock)
            started == clock + lag
            new == enrich_start_state(state, started, timeout, user_id,
                                      file, idea_text)
        IN  /\ started <= MaxClock
            /\ clock' = started
            /\ state_file' = save(new)
            /\ out' = <<Line("OK enrich_pending_until=", new.enrich_until[1])>>
            /\ rc' = 0
            /\ UNCHANGED <<arg, notes, cap_until, cap_restarted>>

cmd_enrich_cancel ==
    IF load_raises(state_file) THEN uncaught("AttributeError") ELSE
    LET state == ensure_not_expired(load(state_file), clock)
    IN  IF ~state.enrich_pending
        THEN /\ out' = <<Line("OK no_enrich_pending", None)>>
             /\ rc' = 0
             /\ UNCHANGED <<arg, clock, state_file, notes, cap_until,
                            cap_restarted>>
        ELSE /\ state_file' = save(cancel_enrich(state))
             /\ out' = <<Line("OK enrich_cancelled", None)>>
             /\ rc' = 0
             /\ UNCHANGED <<arg, clock, notes, cap_until, cap_restarted>>

Next ==
    \/ Tick
    \/ \E u \in UserIds, t \in Timeouts : cmd_start(u, t)
    \/ cmd_cancel
    \/ cmd_status
    \/ \E u \in CommitUserIds, x \in Texts : cmd_commit(u, x)
    \/ \E u \in EnrichUserIds, f \in EnrichFiles, x \in EnrichTexts,
          t \in EnrichTimeouts : cmd_enrich_start(u, f, x, t)
    \/ cmd_enrich_cancel

Spec == Init /\ [][Next]_vars

\* ------------------------------------------------- a state file found on disk
\* objects whose capture or enrichment slot is marked active, by expiry field
CaptureObject(until) ==
    <<[State0 EXCEPT !.pending = TRUE, !.pending_until = until]>>
EnrichObject(until) ==
    <<[State0 EXCEPT !.enrich_pending = TRUE, !.enrich_until = until,
                     !.enrich_file = Some("f1")]>>
\* expiry fields: a string that is no timestamp, the empty string, a
\* timestamp in the future, null
Untils == {Str("soon"), Str(""), Some(timedelta(MaxTimeout)), None}

FileContents ==
    {None, NotJson("{oops"), NotJson(""),
     JsonValue("[]"), JsonValue("\"x\""), JsonValue("5"), JsonValue("null")}
    \cup {CaptureObject(u) : u \in Untils}
    \cup {EnrichObject(u) : u \in Untils}

\* the program is run on a state file it did not necessarily write
InitFile ==
    /\ clock = 0
    /\ state_file \in FileContents
    /\ notes = [p \in {} |-> None]
    /\ out = <<>>
    /\ rc = 0
    /\ cap_until = None
    /\ cap_restarted = FALSE
    /\ arg = None

SpecFile == InitFile /\ [][Next]_vars

\* ------------------------------------------------------------ refs
\* the parameters openalex.search declares, and the arguments cmd_refs
\* passes in its call (query positionally, the others by keyword)
search_params == {"query", "per_page", "mailto"}
refs_call_args == {"query", "per_page", "mailto", "sort", "from_year"}

\* openalex.search: one Ref per work of the reply, works without a title
\* skipped
search(works) ==
    LET titled(w) == strip(w.title, Whitespace) # <<>>
    IN  SelectSeq(works, titled)

\* cmd_refs keeps a Ref that is no book or book chapter and has a DOI, a
\* URL or a venue
keep(r) ==
    /\ r.type \notin {Some("book"), Some("book-chapter")}
    /\ truthy(r.doi) \/ truthy(r.url) \/ truthy(r.venue)

\* refs --query Q --limit N: arg holds the arguments and OpenAlex's reply
cmd_refs ==
    IF ~(refs_call_args \subseteq search_params)
    THEN uncaught("TypeError")
    ELSE LET filtered == SelectSeq(search(arg.works), keep)
             shown == Take(filtered, arg.limit)
         IN  /\ out' = <<Line("JSON", [query |-> arg.query,
                                       count |-> Len(shown),
                                       refs |-> shown])>>
             /\ rc' = 0
             /\ UNCHANGED <<arg, clock, state_file, notes, cap_until,
                            cap_restarted>>

Work(title, type, doi, url, venue) ==
    [title |-> title, type |-> type, doi |-> doi, url |-> url,
     venue |-> venue]
\* works of a reply: a book and a book chapter with a DOI or venue, an
\* article with nothing but its title, articles with a DOI, a URL or a
\* venue only, and a work with a DOI and no title
Works ==
    {Work(<<"B">>, Some("book"), Some("d1"), None, None),
     Work(<<"C">>, Some("book-chapter"), None, None, Some("v1")),
     Work(<<"T">>, Some("article"), None, None, None),
     Work(<<"D">>, Some("article"), Some("d2"), None, None),
     Work(<<"U">>, None, None, Some("u1"), None),
     Work(<<"V">>, Some("article"), None, None, Some("v2")),
     Work(<<" ">>, Some("article"), Some("d3"), None, None)}
Replies == UNION {[1..n -> Works] : n \in 0..MaxWorks}
Limits == 1..MaxWorks

InitRefs ==
    /\ clock = 0
    /\ state_file = None
    /\ notes = [p \in {} |-> None]
    /\ out = <<>>
    /\ rc = 0
    /\ cap_until = None
    /\ cap_restarted = FALSE
    /\ arg \in [query : {"q"}, limit : Limits, works : Replies]

NextRefs == cmd_refs

SpecRefs == InitRefs /\ [][NextRefs]_vars

\* ------------------------------------------------------------ slugify
\* titles: up to SlugTailLen characters, alone or after a run of letters
\* that ends at or just before the cut at SlugMaxLen, with or without a
\* leading hyphen
SlugChars == {"a", "A", "-", "_", " ", "!"}
Pad(n) == [i \in 1..n |-> "a"]
SlugTails == UNION {[1..k -> SlugChars] : k \in 0..SlugTailLen}
SlugInputs ==
    {h \o Pad(n) \o t : h \in {<<>>, <<"-">>},
                        n \in {0} \cup ((SlugMaxLen - 2)..SlugMaxLen),
                        t \in SlugTails}

InitSlugify ==
    /\ clock = 0
    /\ state_file = None
    /\ notes = [p \in {} |-> None]
    /\ out = <<>>
    /\ rc = 0
    /\ cap_until = None
    /\ cap_restarted = FALSE
    /\ arg \in SlugInputs

\* slug = slugify(title_basis), the call of cmd_commit
call_slugify ==
    /\ out = <<>>
    /\ out' = <<Line("slug", slugify(arg, SlugMaxLen))>>
    /\ UNCHANGED <<arg, clock, state_file, notes, rc, cap_until,
                   cap_restarted>>

NextSlugify == call_slugify

SpecSlugify == InitSlugify /\ [][NextSlugify]_vars

\* ------------------------------------------------------------ properties
\* the capture slot's fields other than the flag are all null
CaptureNull(s) ==
    s.started_at = None /\ s.pending_until = None /\ s.user_id = None

EnrichNull(s) ==
    /\ s.enrich_until = None /\ s.enrich_user_id = None
    /\ s.enrich_file = None /\ s.enrich_idea_text = None

\* a start ran, no cancel and no saved commit followed it, and the expiry
\* instant it computed has not been reached
LiveCapture == cap_until # None /\ clock < cap_until[1]

\* the first output line of the step's invocation starts with one of keys
Said(keys) == Len(out') >= 1 /\ out'[1].k \in keys

CommitSaid == Said({"OK saved", "ERR not_pending", "ERR wrong_user"})

\* C1: a commit issued while the capture is pending and not expired is
\* saved (OK saved, exit 0) exactly when the slot's owner id equals the
\* caller's or one of the two is empty or absent; when both are non-empty
\* and differ it ends with ERR wrong_user, exit 3.
C1_CommitOwnerRule ==
    [][\A u \in CommitUserIds, x \in Texts :
          (LiveCapture /\ CommitSaid /\ cmd_commit(u, x)) =>
              LET owner == load(state_file).user_id
                  free == \/ owner = None \/ owner = Some("")
                          \/ u = "" \/ owner = Some(u)
              IN  /\ (rc' = 0 /\ out'[1] = Line("OK saved", None)) <=> free
                  /\ ~free => /\ rc' = 3
                              /\ out' = <<Line("ERR wrong_user", None)>>]_vars

\* a capture pending for u2 has refused a commit, and an earlier commit by
\* a caller with the empty owner id was saved
C1_Witness ==
    /\ rc = 3
    /\ out = <<Line("ERR wrong_user", None)>>
    /\ load(state_file).pending
    /\ load(state_file).user_id = Some("u2")
    /\ \E p \in DOMAIN notes : notes[p].telegram_user_id = ""

\* C2: a commit that ends with ERR wrong_user leaves the capture pending
\* for the original owner: same owner, started_at and expires_at, still
\* unexpired, and no note written.
C2_WrongUserKeepsSlot ==
    [][\A u \in CommitUserIds, x \in Texts :
          (rc' = 3 /\ CommitSaid /\ cmd_commit(u, x)) =>
              LET s == load(state_file)
                  s2 == load(state_file')
              IN  /\ s.pending /\ s2.pending
                  /\ s2.user_id = s.user_id
                  /\ s2.started_at = s.started_at
                  /\ s2.pending_until = s.pending_until
                  /\ clock' < s2.pending_until[1]
                  /\ notes' = notes]_vars

\* u1's commit was refused; the capture is still pending for u2 and the
\* ideas directory is empty
C2_Witness ==
    /\ rc = 3
    /\ out = <<Line("ERR wrong_user", None)>>
    /\ load(state_file).pending
    /\ load(state_file).user_id = Some("u2")
    /\ clock < load(state_file).pending_until[1]
    /\ DOMAIN notes = {}

\* C3: a commit issued while the capture slot is inactive (never started,
\* or the last start was followed by a cancel, a saved commit or the
\* passing of its expiry instant) ends with ERR not_pending, exit 2, for
\* every owner id and text, writes no note and leaves last_file and
\* last_idea_text as they were.
C3_InactiveCommitNotPending ==
    [][\A u \in CommitUserIds, x \in Texts :
          (~LiveCapture /\ CommitSaid /\ cmd_commit(u, x)) =>
              /\ rc' = 2
              /\ out' = <<Line("ERR not_pending", None)>>
              /\ notes' = notes
              /\ load(state_file').last_file = load(state_file).last_file
              /\ load(state_file').last_idea_text
                     = load(state_file).last_idea_text]_vars

\* a commit was refused at or after the expiry instant of a capture that
\* the state file still shows as pending
C3_Witness ==
    /\ rc = 2
    /\ out = <<Line("ERR not_pending", None)>>
    /\ cap_until # None
    /\ clock >= cap_until[1]
    /\ load(state_file).pending

\* C4: once a capture was started with expiry E and no start, cancel or
\* saved commit followed, every status query at a time >= E reports the
\* capture inactive and saves it with started_at, expires_at and owner
\* cleared, whatever other commands ran in between.
C4_StatusAfterExpiry ==
    [][(cap_until # None /\ clock >= cap_until[1]
           /\ Said({"CAPTURE_PENDING"}) /\ cmd_status) =>
          LET s2 == load(state_file')
          IN  /\ ~s2.pending
              /\ CaptureNull(s2)
              /\ out'[1] = Line("CAPTURE_PENDING", "false")
              /\ out'[2].k = "ENRICH_PENDING"]_vars

\* status reported an expired capture as inactive while an enrichment,
\* started in between, is pending
C4_Witness ==
    /\ Len(out) >= 2
    /\ out[1] = Line("CAPTURE_PENDING", "false")
    /\ cap_until # None
    /\ clock >= cap_until[1]
    /\ load(state_file).enrich_pending

\* C5: a start with timeout T stores expires_at = started_at + T, and a
\* status query made strictly before that instant, with no cancel or saved
\* commit in between, reports the capture as active.
C5_StartExpiryAndStatus ==
    [][/\ \A u \in UserIds, T \in Timeouts :
            (Said({"OK pending_until="}) /\ cmd_start(u, T)) =>
                LET s2 == load(state_file')
                IN  /\ s2.pending
                    /\ s2.started_at # None
                    /\ s2.pending_until = Some(s2.started_at[1] + T * Res)
                    /\ out' = <<Line("OK pending_until=",
                                     s2.started_at[1] + T * Res)>>
       /\ (LiveCapture /\ Said({"CAPTURE_PENDING"}) /\ cmd_status) =>
                LET s2 == load(state_file')
                IN  /\ s2.pending
                    /\ s2.pending_until = cap_until
                    /\ out'[1] = Line("CAPTURE_PENDING", "true")
                    /\ out'[3] = Line("CAPTURE_PENDING_UNTIL", cap_until)]_vars

\* status, queried after the start but before the expiry instant, reported
\* the capture as active
C5_Witness ==
    /\ Len(out) >= 4
    /\ out[1] = Line("CAPTURE_PENDING", "true")
    /\ out[3] = Line("CAPTURE_PENDING_UNTIL", cap_until)
    /\ cap_until # None
    /\ clock < cap_until[1]
    /\ clock > load(state_file).started_at[1]

\* C6: null when inactive: in every state file the commands can leave
\* behind, an inactive capture slot has started_at, expires_at and owner
\* null, and an inactive enrichment slot has expires_at, owner, target
\* file and seed text null.
C6_NullWhenInactive ==
    LET s == load(state_file)
    IN  /\ ~s.pending => CaptureNull(s)
        /\ ~s.enrich_pending => EnrichNull(s)

\* status has saved the lazy expiry of a started capture; both slots are
\* inactive with their fields null
C6_Witness ==
    /\ state_file # None
    /\ cap_until # None
    /\ Len(out) >= 1
    /\ out[1] = Line("CAPTURE_PENDING", "false")
    /\ ~load(state_file).pending
    /\ ~load(state_file).enrich_pending
    /\ CaptureNull(load(state_file))
    /\ EnrichNull(load(state_file))
    /\ load(state_file).last_file # None

\* C7: in every state in which the capture slot is active, expires_at is
\* strictly after started_at, for every timeout the start command accepts.
C7_ExpiresAfterStarted ==
    LET s == load(state_file)
    IN  s.pending => s.pending_until[1] > s.started_at[1]

\* C8: last start wins: a start(owner2, T2) over a pending capture ends
\* with exit 0; afterwards the one capture slot is pending for owner2 with
\* started_at = now and expires_at = now + T2 (to the second), and a later
\* commit by another non-empty owner id ends with ERR wrong_user.
C8_LastStartWins ==
    [][/\ \A u2 \in UserIds, T2 \in Timeouts :
            (LiveCapture /\ Said({"OK pending_until="}) /\ cmd_start(u2, T2)) =>
                LET s2 == load(state_file')
                    now == clock' - (clock' % Res)
                IN  /\ rc' = 0
                    /\ out' = <<Line("OK pending_until=", now + T2 * Res)>>
                    /\ s2.pending
                    /\ s2.user_id = Some(u2)
                    /\ s2.started_at = Some(now)
                    /\ s2.pending_until = Some(now + T2 * Res)
       /\ \A u1 \in CommitUserIds, x \in Texts :
            (cap_restarted /\ LiveCapture /\ CommitSaid /\ cmd_commit(u1, x)
               /\ u1 # "" /\ load(state_file).user_id \notin {Some(""), Some(u1)}) =>
                /\ rc' = 3
                /\ out' = <<Line("ERR wrong_user", None)>>
                /\ load(state_file').user_id = load(state_file).user_id]_vars

\* after u2's start replaced a pending capture, a commit by another owner
\* id was refused
C8_Witness ==
    /\ cap_restarted
    /\ rc = 3
    /\ out = <<Line("ERR wrong_user", None)>>
    /\ load(state_file).pending
    /\ load(state_file).user_id = Some("u2")
    /\ load(state_file).started_at[1] > 0

\* C9: cancel ends with exit 0 and leaves both slots inactive; it prints
\* OK cancelled exactly when the capture or the enrichment was pending and
\* unexpired before it, OK no_pending otherwise; a cancel that follows a
\* cancel prints OK no_pending and changes nothing.
C9_CancelClearsBoth ==
    [][(Said({"OK cancelled", "OK no_pending"}) /\ cmd_cancel) =>
          LET s == load(state_file)
              s2 == load(state_file')
              enrich_live == s.enrich_pending /\ clock < s.enrich_until[1]
          IN  /\ rc' = 0
              /\ ~s2.pending /\ CaptureNull(s2)
              /\ ~s2.enrich_pending /\ EnrichNull(s2)
              /\ out' = IF LiveCapture \/ enrich_live
                        THEN <<Line("OK cancelled", None)>>
                        ELSE <<Line("OK no_pending", None)>>
              /\ (Len(out) = 1 /\ out[1].k \in {"OK cancelled", "OK no_pending"}) =>
                    /\ out' = <<Line("OK no_pending", None)>>
                    /\ state_file' = state_file
                    /\ notes' = notes]_vars

\* a cancel found something pending and cleared it; the last committed
\* note is still recorded
C9_Witness ==
    /\ rc = 0
    /\ out = <<Line("OK cancelled", None)>>
    /\ ~load(state_file).pending
    /\ ~load(state_file).enrich_pending
    /\ load(state_file).last_file # None

\* C10: after a saved commit(owner, text) the state file has the capture
\* slot inactive, last_file equal to the path of the note the commit wrote
\* (the path printed as FILE) and last_idea_text equal to the text.
C10_CommitRecordsLast ==
    [][\A u \in CommitUserIds, x \in Texts :
          (rc' = 0 /\ Said({"OK saved"}) /\ cmd_commit(u, x)) =>
              LET s2 == load(state_file')
                  p == out'[2].v
              IN  /\ out'[2].k = "FILE"
                  /\ ~s2.pending /\ CaptureNull(s2)
                  /\ s2.last_file = Some(p)
                  /\ s2.last_idea_text = Some(x)
                  /\ DOMAIN notes' = DOMAIN notes \cup {p}
                  /\ \A q \in DOMAIN notes \ {p} : notes'[q] = notes[q]
                  /\ notes'[p].telegram_user_id = u
                  /\ notes'[p].created = clock' - (clock' % Res)]_vars

\* the commit of " A\nb" was saved under the slug "a" and is recorded as
\* the last idea
C10_Witness ==
    /\ rc = 0
    /\ Len(out) = 3
    /\ out[1] = Line("OK saved", None)
    /\ out[2].v.slug = <<"a">>
    /\ out[2].v \in DOMAIN notes
    /\ ~load(state_file).pending
    /\ load(state_file).last_file = Some(out[2].v)
    /\ load(state_file).last_idea_text = Some(<<" ", "A", "\n", "b", " ">>)

\* the capture slot of a state: flag, owner and the two instants
CaptureOf(s) == <<s.pending, s.user_id, s.started_at, s.pending_until>>

\* C11: enrich-cancel clears only the enrichment slot: afterwards the
\* enrichment is inactive (cleared, or left with an expiry that has
\* passed), the capture slot is what it was, apart from the lazy expiry of
\* a capture whose expiry has passed, and it prints OK enrich_cancelled
\* exactly when the enrichment was active and unexpired before, OK
\* no_enrich_pending otherwise.
C11_EnrichCancelOnlyEnrich ==
    [][(Said({"OK enrich_cancelled", "OK no_enrich_pending"})
           /\ cmd_enrich_cancel) =>
          LET s == load(state_file)
              s2 == load(state_file')
              enrich_live == s.enrich_pending /\ clock < s.enrich_until[1]
              capture_stale == s.pending /\ clock >= s.pending_until[1]
          IN  /\ rc' = 0
              /\ ~s2.enrich_pending \/ clock' >= s2.enrich_until[1]
              /\ enrich_live => ~s2.enrich_pending /\ EnrichNull(s2)
              /\ \/ CaptureOf(s2) = CaptureOf(s)
                 \/ capture_stale /\ ~s2.pending /\ CaptureNull(s2)
              /\ s2.last_file = s.last_file
              /\ s2.last_idea_text = s.last_idea_text
              /\ notes' = notes
              /\ out' = IF enrich_live
                        THEN <<Line("OK enrich_cancelled", None)>>
                        ELSE <<Line("OK no_enrich_pending", None)>>]_vars

\* a pending enrichment was cancelled while u2's capture stays pending and
\* unexpired
C11_Witness ==
    /\ rc = 0
    /\ out = <<Line("OK enrich_cancelled", None)>>
    /\ ~load(state_file).enrich_pending
    /\ load(state_file).pending
    /\ load(state_file).user_id = Some("u2")
    /\ clock < load(state_file).pending_until[1]

\* C12: enrich-start ends with exit 0 in every state; it sets the
\* enrichment slot pending with expires_at = now + timeout (to the second)
\* and the given owner, target file and seed text, whatever the slot held
\* before, and leaves an unexpired capture slot and the last-idea fields
\* unchanged.
C12_EnrichStartRestartWins ==
    [][\A u \in EnrichUserIds, f \in EnrichFiles, x \in EnrichTexts,
          t \in EnrichTimeouts :
          (Said({"OK enrich_pending_until="}) /\ cmd_enrich_start(u, f, x, t)) =>
              LET s == load(state_file)
                  s2 == load(state_file')
                  now == clock' - (clock' % Res)
              IN  /\ rc' = 0
                  /\ out' = <<Line("OK enrich_pending_until=", now + t * Res)>>
                  /\ s2.enrich_pending
                  /\ s2.enrich_until = Some(now + t * Res)
                  /\ s2.enrich_user_id = Some(u)
                  /\ s2.enrich_file = Some(f)
                  /\ s2.enrich_idea_text = Some(x)
                  /\ LiveCapture => CaptureOf(s2) = CaptureOf(s)
                  /\ s2.last_file = s.last_file
                  /\ s2.last_idea_text = s.last_idea_text
                  /\ notes' = notes]_vars

\* an enrichment for f2 was started while a capture is pending and before
\* any commit was saved
C12_Witness ==
    /\ rc = 0
    /\ Len(out) = 1
    /\ out[1].k = "OK enrich_pending_until="
    /\ load(state_file).enrich_pending
    /\ load(state_file).enrich_file = Some("f2")
    /\ load(state_file).pending
    /\ LiveCapture
    /\ load(state_file).last_file = None

\* a slot of the state file is marked active with an expiry at or before t
Stale(file, t) ==
    LET s == load(file)
    IN  \/ s.pending /\ s.pending_until # None /\ s.pending_until[1] <= t
        \/ s.enrich_pending /\ s.enrich_until # None /\ s.enrich_until[1] <= t

\* C13: every command other than start, on every outcome, writes the
\* lazily expired state back: once it has run at time t, the state file
\* holds no slot marked active with expires_at <= t.  (What start itself
\* saves with a timeout <= 0 is C7's matter and is left out here.)
C13_ExpiryWrittenBack ==
    [][(\/ cmd_cancel
        \/ cmd_status
        \/ cmd_enrich_cancel
        \/ CommitSaid /\ \E u \in CommitUserIds, x \in Texts : cmd_commit(u, x)
        \/ \E u \in EnrichUserIds, f \in EnrichFiles, x \in EnrichTexts,
              t \in EnrichTimeouts : cmd_enrich_start(u, f, x, t))
          => ~Stale(state_file', clock)]_vars

\* a commit step that saved a note
CommitSaved(u, x) == rc' = 0 /\ Said({"OK saved"}) /\ cmd_commit(u, x)

\* the note's front matter: id, created, source, type and the caller's id
FrontMatterOf(note, u) ==
    /\ note.created = clock' - (clock' % Res)
    /\ note.id = [iso |-> note.created, f |-> clock' % Res]
    /\ note.source = "telegram"
    /\ note.type = "idea"
    /\ note.telegram_user_id = u

\* C18: the saved note is the front matter followed by the text
\* with both its leading and its trailing whitespace removed and one
\* newline.
C18_BodyTrimmedBothSides ==
    [][\A u \in CommitUserIds, x \in Texts :
          CommitSaved(u, x) =>
              LET note == notes'[out'[2].v]
              IN  /\ FrontMatterOf(note, u)
                  /\ note.body = strip(x, Whitespace) \o <<"\n">>]_vars

\* C19: each start authorises at most one saved commit: a commit is saved
\* only while a start is in force that no saved commit (and no cancel or
\* expiry) has used up, the saved commit uses it up and leaves the capture
\* slot inactive, and a commit issued with no start since the last saved
\* commit ends with ERR not_pending, exit 2, whoever calls.
C19_OneCommitPerStart ==
    [][\A u \in CommitUserIds, x \in Texts :
          (CommitSaid /\ cmd_commit(u, x)) =>
              /\ rc' = 0 => /\ LiveCapture
                            /\ cap_until' = None
                            /\ ~load(state_file').pending
              /\ cap_until = None =>
                     /\ rc' = 2
                     /\ out' = <<Line("ERR not_pending", None)>>
                     /\ notes' = notes]_vars

\* a commit was refused with not_pending after an earlier commit was saved
\* and with no start in force
C19_Witness ==
    /\ rc = 2
    /\ out = <<Line("ERR not_pending", None)>>
    /\ cap_until = None
    /\ load(state_file).last_file # None
    /\ ~load(state_file).pending
    /\ notes # << >>

\* C20: a saved commit never overwrites a note of an earlier saved commit:
\* the path it writes is not one that already holds a note.
C20_CommitNeverOverwrites ==
    [][\A u \in CommitUserIds, x \in Texts :
          CommitSaved(u, x) =>
              /\ out'[2].v \notin DOMAIN notes
              /\ \A p \in DOMAIN notes : notes'[p] = notes[p]]_vars

\* the state file is missing or is not a JSON object
Unreadable(file) == file = None \/ Len(file) = 2
\* an expiry field that is present and is not a timestamp
Unparsable(opt) == opt # None /\ Len(opt) = 2

\* C14: State.load never raises and gives the zero-value state for every
\* missing or corrupt file (no file, text that is not JSON, JSON that is
\* not an object): status run on such a file exits 0, reports both slots
\* inactive and saves the zero-value state.
C14_LoadNeverRaises ==
    [][(Unreadable(state_file) /\ cmd_status) =>
          /\ rc' = 0
          /\ out' = status_lines(State0)
          /\ state_file' = save(State0)]_vars

\* C15: a slot that the loaded state marks active with an expiry that is
\* present but is no timestamp is treated as expired: status saves it
\* inactive with all its fields null, and a commit on such a capture slot
\* ends with ERR not_pending, exit 2.
C15_UnparsableExpiryResets ==
    [][LET s == load(state_file)
           s2 == load(state_file')
       IN  /\ (s.pending /\ Unparsable(s.pending_until)) =>
                  /\ cmd_status => ~s2.pending /\ CaptureNull(s2)
                  /\ \A u \in CommitUserIds, x \in Texts :
                         (CommitSaid /\ cmd_commit(u, x)) =>
                             /\ rc' = 2
                             /\ out' = <<Line("ERR not_pending", None)>>
           /\ (s.enrich_pending /\ Unparsable(s.enrich_until)) =>
                  (cmd_status => ~s2.enrich_pending /\ EnrichNull(s2))]_vars

\* C16: for every title x, slugify(x) is a fixed point of slugify, has
\* between 1 and 60 characters, neither starts nor ends with a hyphen, and
\* is the word idea when x is empty or holds nothing but punctuation,
\* whitespace, underscores and hyphens.
C16_SlugifyIdempotent ==
    out # <<>> =>
        LET y == out[1].v
        IN  /\ slugify(y, SlugMaxLen) = y
            /\ Len(y) >= 1
            /\ Len(y) <= SlugMaxLen
            /\ y[1] # "-"
            /\ y[Len(y)] # "-"
            /\ (\A i \in 1..Len(arg) : arg[i] \in {"!", " ", "_", "-"})
                   => y = <<"i", "d", "e", "a">>

\* a title whose 60th character is a hyphen between letters: the cut
\* leaves the hyphen last and the slug is the 59 letters before it
C16_Witness ==
    /\ out # <<>>
    /\ Len(arg) > SlugMaxLen
    /\ arg[SlugMaxLen] = "-"
    /\ arg[SlugMaxLen + 1] = "a"
    /\ out[1].v = Pad(SlugMaxLen - 1)

\* C17: refs prints, in the reply's order, the first `limit` works that
\* are no book or book chapter and have a DOI, a URL or a venue, with
\* count the number printed, and exits 0.
C17_RefsFirstLimitKept ==
    [][cmd_refs =>
          LET good(w) == /\ w.title # <<" ">>
                         /\ w.type \notin {Some("book"), Some("book-chapter")}
                         /\ w.doi # None \/ w.url # None \/ w.venue # None
              kept == SelectSeq(arg.works, good)
              shown == SubSeq(kept, 1, IF Len(kept) < arg.limit
                                       THEN Len(kept) ELSE arg.limit)
          IN  /\ rc' = 0
              /\ out' = <<Line("JSON", [query |-> arg.query,
                                        count |-> Len(shown),
                                        refs |-> shown])>>]_vars

\* the enrichment slot of a state: flag, expiry, owner, file and seed text
EnrichOf(s) ==
    <<s.enrich_pending, s.enrich_until, s.enrich_user_id, s.enrich_file,
      s.enrich_idea_text>>

\* C21: the two slots have independent lifecycles: a start and a commit,
\* saved or refused, leave an enrichment slot whose expiry has not passed
\* exactly as it was (flag, expires_at, owner, file, seed text), and the
\* lazy expiry that status performs resets neither an enrichment nor a
\* capture whose own expiry has not passed, whatever happens to the other
\* slot.
C21_SlotsIndependent ==
    [][LET s == load(state_file)
           s2 == load(state_file')
           enrich_live == s.enrich_pending /\ clock < s.enrich_until[1]
           capture_live == s.pending /\ clock < s.pending_until[1]
       IN  /\ (/\ enrich_live
               /\ \/ Said({"OK pending_until="})
                        /\ \E u \in UserIds, t \in Timeouts : cmd_start(u, t)
                  \/ CommitSaid
                        /\ \E u \in CommitUserIds, x \in Texts :
                               cmd_commit(u, x))
                  => EnrichOf(s2) = EnrichOf(s)
           /\ (Said({"CAPTURE_PENDING"}) /\ cmd_status) =>
                  /\ enrich_live => EnrichOf(s2) = EnrichOf(s)
                  /\ capture_live => CaptureOf(s2) = CaptureOf(s)]_vars

\* status reports a capture whose expiry has passed as reset, while the
\* enrichment, whose expiry has not, is still pending for its file
C21_Witness ==
    /\ Len(out) >= 2
    /\ out[1] = Line("CAPTURE_PENDING", "false")
    /\ out[2] = Line("ENRICH_PENDING", "true")
    /\ cap_until # None
    /\ clock >= cap_until[1]
    /\ ~load(state_file).pending
    /\ load(state_file).enrich_pending
    /\ load(state_file).enrich_file # None
    /\ clock < load(state_file).enrich_until[1]
====
